---- MODULE Spec2Model ----
(***************************************************************************)
(* State-machine model of the MercadoLibre data-acquisition layer:         *)
(*   scripts/data/api_access.py        token exchange / refresh / storage  *)
(*   scripts/data/data_acquisition.py  item, seller and rating harvesters  *)
(***************************************************************************)
EXTENDS Integers, Sequences, FiniteSets, TLC

VARIABLES
    access_file,    \* the file at PATH_ACCESS_TOKEN
    refresh_file,   \* the file at PATH_REFRESH_TOKEN
    tok_pre,        \* history: both files as they were when the last call began
    tok_last,       \* history: the last call, its response and how it ended
    tok_expect,     \* history: the tokens carried by the successful calls so far
    tok_all_ok      \* history: no call has failed so far

tokVars == <<access_file, refresh_file, tok_pre, tok_last, tok_expect, tok_all_ok>>

VARIABLES
    b_kind,         \* which batch is running: get_all_sellers or get_all_ratings
    b_ids,          \* sellers_id / items_id, the list the batch was called with
    b_task,         \* per position of b_ids: the state of its future
    b_pc,           \* where the calling thread is
    b_k,            \* how many futures list(...) has consumed
    b_rows,         \* the tables list(...) has collected so far
    b_result,       \* the table the batch returned
    b_err,          \* the exception the batch raised
    files,          \* the output directory path_data: filename -> file
    b_overtaken     \* history: a fetch ended while one listed before it had not

batchVars == <<b_kind, b_ids, b_task, b_pc, b_k, b_rows, b_result, b_err, files,
               b_overtaken>>

VARIABLES
    cats,           \* self.cats['id']: the catalog's category ids, ascending
    h_args,         \* init_offset and final_offset of the running range scan
    h_pc,           \* where get_all_items_by_cats is
    h_pos,          \* how many (category, offset) pairs the loop has taken
    h_calls,        \* history: the items_by_category calls, in order
    h_writes,       \* history: the save_data calls of the scan, in order
    h_err,          \* the exception that ended the scan
    page,           \* the 'results' array of the search response at hand
    p_pc,           \* whether items_by_category has run on page
    cat_data,       \* the table items_by_category returned last
    p_err           \* the exception items_by_category raised last

itemVars == <<cats, h_args, h_pc, h_pos, h_calls, h_writes, h_err>>

pageVars == <<page, p_pc, cat_data, p_err>>

vars == <<tokVars, batchVars, itemVars, pageVars>>

(***************************************************************************)
(* Bounds                                                                  *)
(***************************************************************************)
MaxTokLen == 1

TokenChars == {"x", "y"}

MaxIds == 3

MaxThreads == 2

IdSet == {"A", "B"}

MaxOffsetSteps == 4

MaxPageRows == 2

CatIds == {1, 2}

\* the token strings a response can carry
Tokens == UNION {[1..n -> TokenChars] : n \in 1..MaxTokLen}

(***************************************************************************)
(* api_access.py                                                           *)
(***************************************************************************)
TokenFields == {"access_token", "refresh_token"}

\* A file: absent, or present with its content (a string, as a sequence).
NoFile == [exists |-> FALSE, content |-> <<>>]

\* open(path, "a"): creates the file, keeps what it holds.
OpenAppend(f) == [exists |-> TRUE, content |-> f.content]

\* open(path, "w"): creates the file or truncates it.
OpenW(f) == [exists |-> TRUE, content |-> <<>>]

\* file.write(s)
FileWrite(f, s) == [f EXCEPT !.content = @ \o s]

\* What requests.request(...) followed by response.json() can produce: the
\* transport fails, the body is no JSON, or the body is a JSON object.  Under a
\* 2xx status the object holds any subset of the token fields; under a non-2xx
\* status it describes the error and holds no token.
Responses ==
    {[transport |-> "ConnectionError", status |-> 0, json |-> FALSE, body |-> <<>>]}
    \cup {[transport |-> "ok", status |-> s, json |-> FALSE, body |-> <<>>] :
             s \in {200, 400}}
    \cup {[transport |-> "ok", status |-> 400, json |-> TRUE, body |-> <<>>]}
    \cup {[transport |-> "ok", status |-> 200, json |-> TRUE, body |-> b] :
             b \in UNION {[F -> Tokens] : F \in SUBSET TokenFields}}

Has(resp, field) == resp.json /\ field \in DOMAIN resp.body

\* get_access_token, lines 31-39: the files and the way the call ends.
GetAccessTokenEffect(acc, ref, resp) ==
    IF resp.transport # "ok"
    THEN [access |-> acc, refresh |-> ref, outcome |-> "ConnectionError"]
    ELSE IF ~resp.json
    THEN [access |-> acc, refresh |-> ref, outcome |-> "JSONDecodeError"]
    ELSE LET a1 == OpenW(acc) IN
         IF "access_token" \notin DOMAIN resp.body
         THEN [access |-> a1, refresh |-> ref, outcome |-> "KeyError"]
         ELSE LET a2 == FileWrite(a1, resp.body["access_token"])
                  r1 == OpenW(ref)
              IN  IF "refresh_token" \notin DOMAIN resp.body
                  THEN [access |-> a2, refresh |-> r1, outcome |-> "KeyError"]
                  ELSE [access |-> a2,
                        refresh |-> FileWrite(r1, resp.body["refresh_token"]),
                        outcome |-> "ok"]

\* refresh_access_token, lines 61-66: the status is never read.
RefreshAccessTokenEffect(acc, ref, resp) ==
    IF resp.transport # "ok"
    THEN [access |-> acc, refresh |-> ref, outcome |-> "ConnectionError"]
    ELSE IF ~resp.json
    THEN [access |-> acc, refresh |-> ref, outcome |-> "JSONDecodeError"]
    ELSE LET a1 == OpenW(acc) IN
         IF "access_token" \notin DOMAIN resp.body
         THEN [access |-> a1, refresh |-> ref, outcome |-> "KeyError"]
         ELSE [access |-> FileWrite(a1, resp.body["access_token"]),
               refresh |-> ref,
               outcome |-> "ok"]

(***************************************************************************)
(* data_acquisition.py: output files                                       *)
(***************************************************************************)
\* f'{preffix}_{filename}.csv' in save_data, line 56: the pair names the file.
FileName(preffix, filename) == <<preffix, filename>>

AllFiles ==
    {FileName("ratings_data", n) : n \in IdSet \cup {""}}
    \cup {FileName("seller_data", "")}

\* A table is the sequence of its rows; a row is named by the id it is tagged with.
AbsentFile == [state |-> "absent", rows |-> <<>>]

\* to_csv opens the target for writing: the file exists and is empty.
ToCsvOpen(fs, name) == [fs EXCEPT ![name] = [state |-> "open", rows |-> <<>>]]

\* to_csv ran to its end: the file holds the table.
ToCsvDone(fs, name, table) == [fs EXCEPT ![name] = [state |-> "complete", rows |-> table]]

\* to_csv broke off after opening: the file is left as far as it got.
ToCsvBroken(fs, name) == [fs EXCEPT ![name] = [state |-> "partial", rows |-> <<>>]]

RECURSIVE Concat(_)
\* pd.concat(list_of_tables): the rows of the tables, in list order.
Concat(tables) ==
    IF tables = <<>> THEN <<>> ELSE Head(tables) \o Concat(Tail(tables))

(***************************************************************************)
(* data_acquisition.py: SellerDataAcquisition and RatingsDataAcquisition   *)
(***************************************************************************)
IdLists == UNION {[1..n -> IdSet] : n \in 0..MaxIds}

FetchErrors == {"ConnectionError", "JSONDecodeError", "KeyError"}

Queued == [st |-> "queued", res |-> "none", err |-> "none"]

Positions == 1..Len(b_ids)

Running(i) == b_task[i].st \in {"fetching", "writing"}

AllTasksDone == \A i \in Positions : b_task[i].st = "done"

\* Leaving the with block without waiting for the workers (shutdown(wait=False)).
NoJoin == TRUE

\* Leaving the with block, lines 279-280 and 316-317: the executor's __exit__ is
\* shutdown(wait=True), which returns once every submitted call has ended.
PoolDrained == AllTasksDone

\* A seller fetch whose failure is swallowed, as get_rating does.
SellerFetchIsolated(seller_id, out) ==
    IF out = "ok"
    THEN [st |-> "done", res |-> "row", err |-> "none"]
    ELSE [st |-> "done", res |-> "empty", err |-> out]

\* get_seller, lines 230-244: no handler, so the future holds the exception.
SellerFetchResult(seller_id, out) ==
    IF out = "ok"
    THEN [st |-> "done", res |-> "row", err |-> "none"]
    ELSE [st |-> "done", res |-> "exc", err |-> out]

\* A get_rating without its handler: the exception stays in the future.
RatingFailureRaises(err) == [st |-> "done", res |-> "exc", err |-> err]

\* get_rating, lines 349-352: every Exception is caught, an empty table returned.
RatingFailure(err) == [st |-> "done", res |-> "empty", err |-> err]

\* With the futures as tasks, one has ended while one listed before it has not.
Overtaking(tasks) ==
    \E i \in DOMAIN tasks : \E j \in 1..(i - 1) :
        tasks[i].st = "done" /\ tasks[j].st # "done"

\* A result iterator that takes the futures from the end of the list.
NextFutureFromEnd(k) == Len(b_ids) - k

\* The future list(...) takes after k results, lines 281 and 318: executor.map
\* yields the results in the order of the ids it was given.
NextFuture(k) == k + 1

\* The table a finished future yields to list(...).
TableOf(i) == IF b_task[i].res = "row" THEN <<b_ids[i]>> ELSE <<>>

BatchFile == FileName(IF b_kind = "seller" THEN "seller_data" ELSE "ratings_data", "")

\* A get_rating that leaves out save_data's filename argument.
ItemFileUnnamed(i) == FileName("ratings_data", "")

ItemFile(i) == FileName("ratings_data", b_ids[i])

BatchInit ==
    /\ b_kind = "none"
    /\ b_ids = <<>>
    /\ b_task = <<>>
    /\ b_pc = "idle"
    /\ b_k = 0
    /\ b_rows = <<>>
    /\ b_result = <<>>
    /\ b_err = "none"
    /\ files = [f \in AllFiles |-> AbsentFile]
    /\ b_overtaken = FALSE

\* get_all_sellers / get_all_ratings up to executor.map, lines 278-280 and
\* 315-317: map submits one call per id before it returns.
Dispatch ==
    /\ b_pc = "idle"
    /\ \E kind \in {"seller", "rating"}, ids \in IdLists :
          /\ b_kind' = kind
          /\ b_ids' = ids
          /\ b_task' = [i \in 1..Len(ids) |-> Queued]
    /\ b_pc' = "pool"
    /\ UNCHANGED <<b_overtaken, b_k, b_rows, b_result, b_err, files, tokVars, itemVars, pageVars>>

\* A free worker of the pool takes the oldest queued call.
StartTask ==
    /\ b_pc # "idle"
    /\ \E i \in Positions :
          /\ b_task[i].st = "queued"
          /\ \A j \in 1..(i - 1) : b_task[j].st # "queued"
          /\ Cardinality({j \in Positions : Running(j)}) < MaxThreads
          /\ b_task' = [b_task EXCEPT ![i].st = "fetching"]
    /\ UNCHANGED <<b_overtaken, b_kind, b_ids, b_pc, b_k, b_rows, b_result, b_err, files, tokVars, itemVars, pageVars>>

\* get_seller in a worker, lines 230-244.
SellerFetch ==
    /\ b_kind = "seller"
    /\ \E i \in Positions, out \in {"ok"} \cup FetchErrors :
          /\ b_task[i].st = "fetching"
          /\ b_task' = [b_task EXCEPT ![i] = SellerFetchResult(b_ids[i], out)]
    /\ b_overtaken' = (b_overtaken \/ Overtaking(b_task'))
    /\ UNCHANGED <<b_kind, b_ids, b_pc, b_k, b_rows, b_result, b_err, files, tokVars, itemVars, pageVars>>

\* get_rating in a worker, lines 333-346, up to save_data opening the item's file.
RatingFetch ==
    /\ b_kind = "rating"
    /\ \E i \in Positions, out \in {"ok", "OSError"} \cup FetchErrors :
          /\ b_task[i].st = "fetching"
          /\ IF out = "ok"
             THEN /\ b_task' = [b_task EXCEPT ![i].st = "writing"]
                  /\ files' = ToCsvOpen(files, ItemFile(i))
             ELSE /\ b_task' = [b_task EXCEPT ![i] = RatingFailure(out)]
                  /\ UNCHANGED files
    /\ b_overtaken' = (b_overtaken \/ Overtaking(b_task'))
    /\ UNCHANGED <<b_kind, b_ids, b_pc, b_k, b_rows, b_result, b_err, tokVars, itemVars, pageVars>>

\* get_rating in a worker, lines 346-352: the item's write ends, well or not.
RatingSave ==
    /\ b_kind = "rating"
    /\ \E i \in Positions, ok \in BOOLEAN :
          /\ b_task[i].st = "writing"
          /\ IF ok
             THEN /\ b_task' = [b_task EXCEPT ![i] = [st |-> "done", res |-> "row",
                                                       err |-> "none"]]
                  /\ files' = ToCsvDone(files, ItemFile(i), <<b_ids[i]>>)
             ELSE /\ b_task' = [b_task EXCEPT ![i] = RatingFailure("OSError")]
                  /\ files' = ToCsvBroken(files, ItemFile(i))
    /\ b_overtaken' = (b_overtaken \/ Overtaking(b_task'))
    /\ UNCHANGED <<b_kind, b_ids, b_pc, b_k, b_rows, b_result, b_err, tokVars, itemVars, pageVars>>

\* The end of the with block, lines 279-280 and 316-317.
Join ==
    /\ b_pc = "pool"
    /\ PoolDrained
    /\ b_pc' = "collect"
    /\ UNCHANGED <<b_overtaken, b_kind, b_ids, b_task, b_k, b_rows, b_result, b_err, files, tokVars, itemVars, pageVars>>

\* list(...) at lines 281 and 318 takes the next future's result, in the order
\* of the ids: it waits for that future and re-raises what it raised.
CollectNext ==
    /\ b_pc = "collect"
    /\ b_k < Len(b_ids)
    /\ b_task[NextFuture(b_k)].st = "done"
    /\ IF b_task[NextFuture(b_k)].res = "exc"
       THEN /\ b_pc' = "raised"
            /\ b_err' = b_task[NextFuture(b_k)].err
            /\ UNCHANGED <<b_k, b_rows>>
       ELSE /\ b_k' = b_k + 1
            /\ b_rows' = Append(b_rows, TableOf(NextFuture(b_k)))
            /\ UNCHANGED <<b_pc, b_err>>
    /\ UNCHANGED <<b_overtaken, b_kind, b_ids, b_task, b_result, files, tokVars, itemVars, pageVars>>

\* A concat that refuses whenever there is no row to combine.
ConcatRaisesWithoutRows(tables) == Concat(tables) = <<>>

\* pd.concat, lines 281 and 318, raises ValueError ("No objects to
\* concatenate") on an empty list; empty tables in the list are accepted.
ConcatRaises(tables) == tables = <<>>

\* pd.concat, save_data and return, lines 281-285 and 318-321.
ConcatSave ==
    /\ b_pc = "collect"
    /\ b_k = Len(b_ids)
    /\ IF ConcatRaises(b_rows)
       THEN /\ b_pc' = "raised"
            /\ b_err' = "ValueError"
            /\ UNCHANGED <<b_result, files>>
       ELSE /\ b_pc' = "returned"
            /\ b_result' = Concat(b_rows)
            /\ files' = ToCsvDone(files, BatchFile, Concat(b_rows))
            /\ UNCHANGED b_err
    /\ UNCHANGED <<b_overtaken, b_kind, b_ids, b_task, b_k, b_rows, tokVars, itemVars, pageVars>>

BatchNext ==
    \/ Dispatch
    \/ StartTask
    \/ SellerFetch
    \/ RatingFetch
    \/ RatingSave
    \/ Join
    \/ CollectNext
    \/ ConcatSave

(***************************************************************************)
(* data_acquisition.py: ItemDataAcquisition.items_by_category              *)
(***************************************************************************)
\* A column name is the sequence of its parts between underscores:
\* "brand_value_id" is <<"brand", "value", "id">>.
Col(name) == <<name>>

\* What a cell of the page can hold.
NaN == [kind |-> "nan", keys |-> {}, items |-> <<>>]

None == [kind |-> "none", keys |-> {}, items |-> <<>>]

Dict(keys) == [kind |-> "dict", keys |-> keys, items |-> <<>>]

List(items) == [kind |-> "list", keys |-> {}, items |-> items]

IsNull(v) == v.kind \in {"nan", "none"}

\* The plain columns every search result carries.
ScalarCols == {Col("id"), Col("price"), Col("thumbnail"), <<"currency", "id">>}

NestedCols == {"shipping", "seller", "installments", "attributes"}

\* The sub-keys a BRAND attribute object may carry besides its id.
BrandKeys == {<<"name">>, <<"value", "id">>, <<"value", "name">>}

Attribute(id, keys) == [id |-> id, keys |-> keys \cup {<<"id">>}]

AttributeLists ==
    {<<>>, <<Attribute("SIZE", {<<"name">>})>>}
    \cup {<<Attribute("BRAND", K)>> : K \in SUBSET BrandKeys}
    \cup {<<Attribute("SIZE", {<<"name">>}), Attribute("BRAND", K)>> : K \in SUBSET BrandKeys}

\* The rows of a search page: the nested objects are there or missing.
Rows ==
    {[shipping |-> n[1], seller |-> n[2], installments |-> n[3], attributes |-> a] :
        n \in {<<Dict({<<"free", "shipping">>, <<"mode">>}), Dict({<<"id">>, <<"nickname">>}),
                 Dict({<<"quantity">>})>>,
               <<NaN, Dict({<<"id">>}), None>>,
               <<NaN, NaN, NaN>>},
        a \in {NaN} \cup {List(l) : l \in AttributeLists}}

Pages == UNION {[1..n -> Rows] : n \in 0..MaxPageRows}

RECURSIVE GetOnlyOneAttr(_, _, _)
\* get_only_one_attr, lines 102-105: the first entry whose id is the attribute
\* (from position i on), None when there is none.
GetOnlyOneAttr(row, attribute, i) ==
    IF i > Len(row) THEN None
    ELSE IF row[i].id = attribute THEN Dict(row[i].keys)
    ELSE GetOnlyOneAttr(row, attribute, i + 1)

\* pd.Series(value).index, as strings: a dict gives its keys, None nothing,
\* any other scalar the one position 0.
SeriesKeys(v) ==
    CASE v.kind = "dict" -> v.keys
      [] v.kind = "none" -> {}
      [] OTHER -> {<<"0">>}

\* explode_data, lines 171-179: the columns added for the nested columns
\* present, named col + "_" + str(new_col).  values[col] is the column.
ExplodeData(columns, values) ==
    UNION {{Col(col) \o k : k \in UNION {SeriesKeys(values[col][r]) :
                                           r \in DOMAIN values[col]}} :
           col \in {c \in {"shipping", "seller", "installments", "brand"} :
                      Col(c) \in columns}}

\* cols_delete of clean_data_cols, lines 192-198.
ColsDelete ==
    {<<"thumbnail", "id">>, <<"thumbnail">>, <<"currency", "id">>, <<"order", "backend">>,
     <<"use", "thumbnail", "id">>, <<"attributes">>, <<"installments">>,
     <<"differential", "pricing">>, <<"inventory", "id">>, <<"variation", "filters">>,
     <<"variations", "data">>, <<"shipping">>, <<"seller">>, <<"brand", "id">>,
     <<"brand", "name">>, <<"brand", "value", "id">>,
     <<"brand", "attribute", "group", "id">>, <<"brand", "attribute", "group", "name">>,
     <<"brand", "value", "struct">>, <<"brand", "values">>, <<"brand", "source">>,
     <<"brand", "value", "type">>, <<"brand">>}

\* A clean-up that forgets the raw nested columns and the brand column.
CleanKeepsNested(columns) ==
    columns \ (ColsDelete \ {<<"brand">>, <<"shipping">>, <<"seller">>,
                             <<"installments">>, <<"attributes">>})

\* clean_data_cols, lines 199-200.
CleanDataCols(columns) == columns \ ColsDelete

EmptyTable == [nrows |-> 0, cols |-> {}]

\* items_by_category, lines 127-143, on the 'results' array pg of the response
\* (transport names what the request itself ended with).
ItemsByCategory(category, transport, pg) ==
    IF transport # "ok" THEN [err |-> transport, table |-> EmptyTable]
    ELSE IF Len(pg) = 0 THEN [err |-> "none", table |-> EmptyTable]
    ELSE
      LET raw == [c \in NestedCols |-> [r \in DOMAIN pg |-> pg[r][c]]]
          \* dropna(axis=1, how='all')
          kept == {c \in NestedCols : \E r \in DOMAIN pg : ~IsNull(raw[c][r])}
          cols0 == ScalarCols \cup {Col("category")} \cup {Col(c) : c \in kept}
          hasAttr == "attributes" \in kept
          \* len(x) of a missing attributes cell is a TypeError
          bad == hasAttr /\ \E r \in DOMAIN pg : raw["attributes"][r].kind # "list"
      IN  IF bad THEN [err |-> "TypeError", table |-> EmptyTable]
          ELSE
            LET brand == [r \in DOMAIN pg |->
                            GetOnlyOneAttr(raw["attributes"][r].items, "BRAND", 1)]
                cols1 == IF hasAttr THEN cols0 \cup {Col("brand")} ELSE cols0
                values == [c \in {"shipping", "seller", "installments", "brand"} |->
                             IF c = "brand" THEN brand ELSE raw[c]]
                cols2 == cols1 \cup ExplodeData(cols1, values)
            IN  [err |-> "none",
                 table |-> [nrows |-> Len(pg), cols |-> CleanDataCols(cols2)]]

PageIdle ==
    /\ page = <<>>
    /\ p_pc = "idle"
    /\ cat_data = EmptyTable
    /\ p_err = "none"

PageInit ==
    /\ page \in Pages
    /\ p_pc = "input"
    /\ cat_data = EmptyTable
    /\ p_err = "none"

\* One call of items_by_category on the page at hand.
items_by_category ==
    /\ p_pc = "input"
    /\ LET r == ItemsByCategory(1, "ok", page) IN
          /\ cat_data' = r.table
          /\ p_err' = r.err
    /\ p_pc' = "output"
    /\ UNCHANGED <<page, tokVars, batchVars, itemVars>>

PageNext == items_by_category

(***************************************************************************)
(* data_acquisition.py: ItemDataAcquisition.get_all_items_by_cats          *)
(***************************************************************************)
\* the step of the offset range, line 153
PageStep == 50

OffsetGrid == {k * (PageStep \div 2) : k \in 0..MaxOffsetSteps}

\* np.arange(start, stop, step) for step > 0:
\* ceil((stop - start) / step) values from start on.
ARange(start, stop, step) ==
    LET n == IF stop > start THEN (stop - start + step - 1) \div step ELSE 0
    IN  [i \in 1..n |-> start + (i - 1) * step]

\* offset_range, line 153
OffsetRange(init_offset, final_offset) ==
    ARange(init_offset, final_offset + PageStep, PageStep)

\* product(self.cats['id'], offset_range), line 154: its p-th pair.
ProductAt(cs, offs, p) ==
    [category |-> cs[((p - 1) \div Len(offs)) + 1],
     offset |-> offs[((p - 1) % Len(offs)) + 1]]

ProductLen(cs, offs) == Len(cs) * Len(offs)

\* A scan that saves every page.
SaveAlways(table) == TRUE

\* the test of lines 156-157, negated: the page is saved
ShouldSave(table) == table.nrows # 0

RECURSIVE SortedSeq(_)
\* sort_values(by="id"), line 42, of a set of distinct ids
SortedSeq(S) ==
    IF S = {} THEN <<>>
    ELSE LET m == CHOOSE x \in S : \A y \in S : x <= y
         IN  <<m>> \o SortedSeq(S \ {m})

\* The pages the range scan is fed: no row or one row, its BRAND there or not.
HarvestPages ==
    {<<>>} \cup
    {<<r>> : r \in {x \in Rows :
                      /\ x.shipping.kind = "dict"
                      /\ x.attributes \in
                            {NaN, List(<<Attribute("BRAND", {<<"value", "name">>})>>)}}}

ItemIdle ==
    /\ cats = <<>>
    /\ h_args = [init_offset |-> 0, final_offset |-> 0]
    /\ h_pc = "idle"
    /\ h_pos = 0
    /\ h_calls = <<>>
    /\ h_writes = <<>>
    /\ h_err = "none"

ItemInit ==
    /\ cats \in {SortedSeq(S) : S \in SUBSET CatIds}
    /\ h_args = [init_offset |-> 0, final_offset |-> 0]
    /\ h_pc = "idle"
    /\ h_pos = 0
    /\ h_calls = <<>>
    /\ h_writes = <<>>
    /\ h_err = "none"

\* get_all_items_by_cats is called, line 153.
HarvestCall ==
    /\ h_pc = "idle"
    /\ \E i \in OffsetGrid, f \in OffsetGrid :
          h_args' = [init_offset |-> i, final_offset |-> f]
    /\ h_pc' = "loop"
    /\ UNCHANGED <<cats, h_pos, h_calls, h_writes, h_err, tokVars, batchVars, pageVars>>

\* One turn of the loop, lines 154-159.
HarvestStep ==
    LET offs == OffsetRange(h_args.init_offset, h_args.final_offset) IN
    /\ h_pc = "loop"
    /\ h_pos < ProductLen(cats, offs)
    /\ \E pg \in HarvestPages, transport \in {"ok", "ConnectionError"} :
          LET at == ProductAt(cats, offs, h_pos + 1)
              r == ItemsByCategory(at.category, transport, pg)
          IN  /\ page' = pg
              /\ p_err' = r.err
              /\ h_calls' = Append(h_calls,
                                   [category |-> at.category, offset |-> at.offset,
                                    upstream |-> Len(pg),
                                    returned |-> IF r.err = "none" THEN r.table.nrows
                                                 ELSE -1])
              /\ IF r.err # "none"
                 THEN /\ h_pc' = "raised"
                      /\ h_err' = r.err
                      /\ UNCHANGED <<cat_data, h_writes, h_pos>>
                 ELSE /\ cat_data' = r.table
                      /\ h_pos' = h_pos + 1
                      /\ h_writes' = IF ShouldSave(r.table)
                                     THEN Append(h_writes,
                                                 FileName("data_items",
                                                          <<at.category, at.offset>>))
                                     ELSE h_writes
                      /\ UNCHANGED <<h_pc, h_err>>
    /\ UNCHANGED <<cats, h_args, p_pc, tokVars, batchVars>>

\* The loop is exhausted: the call returns, line 159.
HarvestReturn ==
    /\ h_pc = "loop"
    /\ h_pos = ProductLen(cats, OffsetRange(h_args.init_offset, h_args.final_offset))
    /\ h_pc' = "done"
    /\ UNCHANGED <<cats, h_args, h_pos, h_calls, h_writes, h_err, tokVars, batchVars,
                   pageVars>>

ItemNext == HarvestCall \/ HarvestStep \/ HarvestReturn

TokInit ==
    /\ access_file = NoFile
    /\ refresh_file = NoFile
    /\ tok_pre = [access |-> NoFile, refresh |-> NoFile]
    /\ tok_last = [op |-> "none", resp |-> CHOOSE r \in Responses : r.transport # "ok",
                   outcome |-> "none"]
    /\ tok_expect = [access |-> NoFile, refresh |-> NoFile]
    /\ tok_all_ok = TRUE

get_access_token ==
    \E resp \in Responses :
        LET e == GetAccessTokenEffect(access_file, refresh_file, resp) IN
        /\ access_file' = e.access
        /\ refresh_file' = e.refresh
        /\ tok_pre' = [access |-> access_file, refresh |-> refresh_file]
        /\ tok_last' = [op |-> "exchange", resp |-> resp, outcome |-> e.outcome]
        /\ tok_expect' = IF e.outcome = "ok"
                         THEN [access |-> [exists |-> TRUE,
                                           content |-> resp.body["access_token"]],
                               refresh |-> [exists |-> TRUE,
                                            content |-> resp.body["refresh_token"]]]
                         ELSE tok_expect
        /\ tok_all_ok' = (tok_all_ok /\ e.outcome = "ok")
        /\ UNCHANGED <<batchVars, itemVars, pageVars>>

refresh_access_token ==
    \E resp \in Responses :
        LET e == RefreshAccessTokenEffect(access_file, refresh_file, resp) IN
        /\ access_file' = e.access
        /\ refresh_file' = e.refresh
        /\ tok_pre' = [access |-> access_file, refresh |-> refresh_file]
        /\ tok_last' = [op |-> "refresh", resp |-> resp, outcome |-> e.outcome]
        /\ tok_expect' = IF e.outcome = "ok"
                         THEN [tok_expect EXCEPT
                                 !.access = [exists |-> TRUE,
                                             content |-> resp.body["access_token"]]]
                         ELSE tok_expect
        /\ tok_all_ok' = (tok_all_ok /\ e.outcome = "ok")
        /\ UNCHANGED <<batchVars, itemVars, pageVars>>

TokNext == get_access_token \/ refresh_access_token

InitToken == TokInit /\ BatchInit /\ ItemIdle /\ PageIdle

SpecToken == InitToken /\ [][TokNext]_vars

InitBatch == BatchInit /\ TokInit /\ ItemIdle /\ PageIdle

SpecBatch == InitBatch /\ [][BatchNext]_vars

InitItems == ItemInit /\ PageIdle /\ TokInit /\ BatchInit

SpecItems == InitItems /\ [][ItemNext]_vars

InitPage == PageInit /\ ItemIdle /\ TokInit /\ BatchInit

SpecPage == InitPage /\ [][PageNext]_vars

(***************************************************************************)
(* Properties of the token calls                                           *)
(***************************************************************************)
LastLacksToken ==
    /\ tok_last.resp.transport = "ok"
    /\ tok_last.resp.json
    /\ ~(TokenFields \subseteq DOMAIN tok_last.resp.body)

StoreUntouched ==
    /\ access_file = tok_pre.access
    /\ refresh_file = tok_pre.refresh

\* Both token files held something when the last call began.
StoreWasFilled == tok_pre.access.exists /\ tok_pre.refresh.exists

\* C1: an authorization-code exchange whose response lacks access_token or
\* refresh_token fails with an error and leaves both token files exactly as
\* they were before the call (stated for files that held tokens).
C1_ExchangeFailurePersistsNothing ==
    (tok_last.op = "exchange" /\ LastLacksToken /\ StoreWasFilled)
        => (tok_last.outcome # "ok" /\ StoreUntouched)

\* C2: a refresh whose response is non-2xx or lacks access_token fails with an
\* error and leaves both token files unchanged (stated for files that held
\* tokens).
C2_RefreshFailureKeepsStore ==
    (/\ tok_last.op = "refresh"
     /\ tok_last.resp.transport = "ok"
     /\ (tok_last.resp.status # 200 \/ ~Has(tok_last.resp, "access_token"))
     /\ StoreWasFilled)
        => (tok_last.outcome # "ok" /\ StoreUntouched)

\* C3: after successful exchange and refresh calls only, the access-token file
\* holds exactly the access_token of the latest response and the refresh-token
\* file exactly the refresh_token of the latest exchange; a successful refresh
\* leaves the refresh-token file as it was.
C3_StoreHoldsLatestTokens ==
    /\ tok_all_ok => (access_file = tok_expect.access /\ refresh_file = tok_expect.refresh)
    /\ (tok_last.op = "refresh" /\ tok_last.outcome = "ok")
          => (/\ refresh_file = tok_pre.refresh
              /\ access_file.content = tok_last.resp.body["access_token"])

\* C3 witness: a successful refresh after a successful exchange replaced a
\* different access token and kept the exchange's refresh token.
C3_Witness ==
    /\ tok_all_ok
    /\ tok_last.op = "refresh"
    /\ tok_last.outcome = "ok"
    /\ tok_pre.access.exists
    /\ tok_pre.access # access_file
    /\ refresh_file.exists
    /\ refresh_file = tok_expect.refresh

(***************************************************************************)
(* Properties of the seller and rating batches                             *)
(***************************************************************************)
Returned == b_pc = "returned"

Raised == b_pc = "raised"

Failed(i) == b_task[i].err # "none"

NumFailed == Cardinality({i \in Positions : Failed(i)})

RECURSIVE IdsOfSucceeded(_)
\* the ids of the positions from i on whose fetch did not fail, in input order
IdsOfSucceeded(i) ==
    IF i > Len(b_ids) THEN <<>>
    ELSE (IF Failed(i) THEN <<>> ELSE <<b_ids[i]>>) \o IdsOfSucceeded(i + 1)

\* C4: a rating batch over N ids in which exactly one fetch raised does not
\* raise, and the table it returns and writes has N-1 rows, one per other id.
C4_RatingBatchIsolatesOneFailure ==
    (b_kind = "rating" /\ AllTasksDone /\ NumFailed = 1)
        => /\ ~Raised
           /\ Returned =>
                /\ Len(b_result) = Len(b_ids) - 1
                /\ b_result = IdsOfSucceeded(1)
                /\ files[BatchFile] = [state |-> "complete", rows |-> b_result]

\* C4 witness: a rating batch of three ids returned although one fetch raised.
C4_Witness ==
    /\ b_kind = "rating"
    /\ Returned
    /\ Len(b_ids) = 3
    /\ NumFailed = 1
    /\ Len(b_result) = 2

\* C7: in a seller batch, once a fetch has raised, the batch returns no table
\* and writes no seller batch file, whatever the other fetches gave; past the
\* pool it can only go on consuming futures, and when it ends it has raised
\* the error of the first failed fetch in the order of the ids.
C7_SellerBatchAborts ==
    (b_kind = "seller" /\ \E i \in Positions : Failed(i))
        => /\ ~Returned
           /\ b_result = <<>>
           /\ files[BatchFile].state = "absent"
           /\ (AllTasksDone /\ b_pc = "collect") => ENABLED CollectNext
           /\ Raised => \E i \in Positions :
                           /\ Failed(i)
                           /\ b_err = b_task[i].err
                           /\ \A j \in 1..(i - 1) : ~Failed(j)

\* C7 witness: a seller batch failed with one fetch's error while the other
\* fetches had produced their rows.
C7_Witness ==
    /\ b_kind = "seller"
    /\ Raised
    /\ Len(b_ids) = 3
    /\ Cardinality({i \in Positions : b_task[i].res = "row"}) = 2
    /\ b_err \in FetchErrors

\* C8: in a rating batch, no two workers write the same file at the same
\* time, and no worker writes the batch file.
C8_OneWriterPerFile ==
    b_kind = "rating" =>
        \A i \in Positions : b_task[i].st = "writing" =>
            /\ ItemFile(i) # BatchFile
            /\ \A j \in Positions :
                  (j # i /\ b_task[j].st = "writing") => ItemFile(j) # ItemFile(i)

\* C9: the calling thread is past the with block (collecting, returned or
\* raised) only when every fetch of the batch has ended, and the batch file is
\* written only then; also when a fetch raised.
C9_ControlReturnsAfterPoolDrained ==
    /\ b_pc \in {"collect", "returned", "raised"} => AllTasksDone
    /\ (b_kind # "none" /\ files[BatchFile].state # "absent") => AllTasksDone
    /\ b_rows # <<>> => AllTasksDone

\* C9 witness: a seller batch raised after all its fetches had ended, the
\* failing one not being the last to be consumed.
C9_Witness ==
    /\ b_kind = "seller"
    /\ Raised
    /\ Len(b_ids) = 3
    /\ AllTasksDone
    /\ b_task[1].res = "exc"
    /\ b_task[3].res = "row"

(***************************************************************************)
(* Properties of the item range scan and of items_by_category              *)
(***************************************************************************)
InitOffset == h_args.init_offset

FinalOffset == h_args.final_offset

\* init_offset, init_offset + 50, ..., up to final_offset
OffsetsUpToFinal == {o \in InitOffset..FinalOffset : (o - InitOffset) % PageStep = 0}

CallsFor(c, o) == {n \in DOMAIN h_calls : h_calls[n].category = c /\ h_calls[n].offset = o}

\* C5: for init_offset <= final_offset, the range scan never requests an offset
\* above final_offset, and when it returns it has called items_by_category
\* exactly once for each pair of a catalog id and an offset among init_offset,
\* init_offset + 50, ..., final_offset, and for no other pair.
C5_ScanRequestsExactlyTheRange ==
    InitOffset <= FinalOffset =>
        /\ \A n \in DOMAIN h_calls : h_calls[n].offset <= FinalOffset
        /\ h_pc = "done" =>
              /\ \A i \in DOMAIN cats : \A o \in OffsetsUpToFinal :
                    Cardinality(CallsFor(cats[i], o)) = 1
              /\ \A n \in DOMAIN h_calls :
                    /\ h_calls[n].offset \in OffsetsUpToFinal
                    /\ \E i \in DOMAIN cats : cats[i] = h_calls[n].category

ReturnedRows(call) == call.returned >= 1

\* C6: the files the range scan has written are, in order, exactly one per
\* call of items_by_category that returned at least one row, keyed by that
\* call's category and offset; and a page with no upstream result comes back
\* with zero rows.
C6_WriteIffPageHasRows ==
    /\ LET full == SelectSeq(h_calls, ReturnedRows) IN
          h_writes = [n \in 1..Len(full) |->
                        FileName("data_items", <<full[n].category, full[n].offset>>)]
    /\ \A n \in DOMAIN h_calls :
          (h_calls[n].upstream = 0 /\ h_calls[n].returned # -1) => h_calls[n].returned = 0

\* C6 witness: a finished scan met an empty page and a page with rows, and
\* wrote fewer files than it made calls.
C6_Witness ==
    /\ h_pc = "done"
    /\ \E n \in DOMAIN h_calls : h_calls[n].upstream = 0 /\ h_calls[n].returned = 0
    /\ \E n \in DOMAIN h_calls : h_calls[n].returned >= 1
    /\ Len(h_writes) >= 1
    /\ Len(h_writes) < Len(h_calls)

PageReturnedRows == p_pc = "output" /\ p_err = "none" /\ cat_data.nrows > 0

\* The BRAND objects items_by_category extracted from the page at hand.
BrandObjects ==
    {GetOnlyOneAttr(page[r].attributes.items, "BRAND", 1) : r \in DOMAIN page}

\* C10 as stated: the table returned for a non-empty page has no brand column,
\* no column whose name starts with brand_, and no attributes, shipping,
\* seller or installments column.
C10_NoBrandColumnAtAll ==
    PageReturnedRows =>
        \A c \in cat_data.cols :
            /\ c[1] # "brand"
            /\ c \notin {<<"attributes">>, <<"shipping">>, <<"seller">>, <<"installments">>}

\* C10 amended: the table returned for a non-empty page has no brand,
\* attributes, shipping, seller or installments column and none of the nine
\* brand_ columns the deny-list names; a BRAND sub-key the deny-list does not
\* name stays, as column brand_<sub-key>.
C10_DenyListedColumnsDropped ==
    PageReturnedRows =>
        /\ cat_data.cols \cap
              {<<"brand">>, <<"attributes">>, <<"shipping">>, <<"seller">>,
               <<"installments">>, <<"brand", "id">>, <<"brand", "name">>,
               <<"brand", "value", "id">>, <<"brand", "attribute", "group", "id">>,
               <<"brand", "attribute", "group", "name">>, <<"brand", "value", "struct">>,
               <<"brand", "values">>, <<"brand", "source">>,
               <<"brand", "value", "type">>} = {}
        /\ \A b \in BrandObjects :
              <<"value", "name">> \in b.keys => <<"brand", "value", "name">> \in cat_data.cols

\* C10 witness: a page whose BRAND object carries value_id and value_name came
\* back with column brand_value_name.
C10_Witness ==
    /\ PageReturnedRows
    /\ \E b \in BrandObjects : {<<"value", "id">>, <<"value", "name">>} \subseteq b.keys
    /\ <<"brand", "value", "name">> \in cat_data.cols

(***************************************************************************)
(* Properties of the rating batch's files and of the batch's result        *)
(***************************************************************************)
DistinctIds == \A i \in Positions : \A j \in Positions : i # j => b_ids[i] # b_ids[j]

Occurrences(table, id) == Cardinality({n \in DOMAIN table : table[n] = id})

\* C11: in a rating batch over distinct ids, an item whose fetch has returned
\* its row already has its own complete file; once the batch has returned,
\* each such item also has exactly one row in the batch file, and an item
\* whose fetch failed has no row in the batch file and no complete file of
\* its own.
C11_SucceededItemsPersistedTwice ==
    (b_kind = "rating" /\ DistinctIds) =>
        \A i \in Positions :
            LET own == files[FileName("ratings_data", b_ids[i])]
                batch == files[FileName("ratings_data", "")]
            IN  /\ b_task[i].res = "row" =>
                      own = [state |-> "complete", rows |-> <<b_ids[i]>>]
                /\ (Returned /\ b_task[i].res = "row") =>
                      /\ batch.state = "complete"
                      /\ Occurrences(batch.rows, b_ids[i]) = 1
                /\ (Returned /\ Failed(i)) =>
                      /\ Occurrences(batch.rows, b_ids[i]) = 0
                      /\ own.state # "complete"

\* C11 witness: a returned rating batch of two distinct ids, one persisted
\* twice, the other failed in its own write and left out of the batch file.
C11_Witness ==
    /\ b_kind = "rating"
    /\ Returned
    /\ DistinctIds
    /\ Len(b_ids) = 2
    /\ \E i \in Positions :
          /\ b_task[i].res = "row"
          /\ files[FileName("ratings_data", b_ids[i])].state = "complete"
          /\ Occurrences(files[FileName("ratings_data", "")].rows, b_ids[i]) = 1
    /\ \E i \in Positions :
          /\ b_task[i].err = "OSError"
          /\ files[FileName("ratings_data", b_ids[i])].state = "partial"

RECURSIVE IdsWithRow(_)
\* the ids of the positions from i on whose fetch gave a row, in input order
IdsWithRow(i) ==
    IF i > Len(b_ids) THEN <<>>
    ELSE (IF b_task[i].res = "row" THEN <<b_ids[i]>> ELSE <<>>) \o IdsWithRow(i + 1)

\* C12: the table a seller or rating batch returns, and the table in its batch
\* file, hold the rows in the order of the input id list, whichever fetch
\* ended first.
C12_RowsInInputOrder ==
    Returned =>
        /\ b_result = IdsWithRow(1)
        /\ files[BatchFile].rows = IdsWithRow(1)

\* C12 witness: a batch returned the rows of two different ids in input order
\* although a later-listed fetch had ended before an earlier one.
C12_Witness ==
    /\ Returned
    /\ b_overtaken
    /\ Len(b_result) >= 2
    /\ b_result[1] # b_result[2]
    /\ b_result = IdsWithRow(1)

\* C13: a seller or rating batch called with an empty id list starts no fetch,
\* never returns a table, leaves the batch file unwritten and, when it ends,
\* has raised pd.concat's ValueError; a rating batch of N >= 1 ids whose
\* fetches all failed does not raise, and returns and writes a zero-row table.
C13_EmptyListRaisesAllFailedReturns ==
    /\ (b_kind # "none" /\ b_ids = <<>>) =>
          /\ b_task = <<>>
          /\ ~ENABLED StartTask
          /\ ~Returned
          /\ files[BatchFile].state = "absent"
          /\ Raised => b_err = "ValueError"
          /\ b_pc = "collect" => ENABLED ConcatSave
    /\ (/\ b_kind = "rating"
        /\ Len(b_ids) >= 1
        /\ AllTasksDone
        /\ \A i \in Positions : Failed(i)) =>
          /\ ~Raised
          /\ (b_pc = "collect" /\ b_k = Len(b_ids)) => ENABLED ConcatSave
          /\ Returned =>
                /\ b_result = <<>>
                /\ files[BatchFile] = [state |-> "complete", rows |-> <<>>]

\* C13 witness: a rating batch of two ids returned a zero-row table and wrote
\* the batch file, every fetch having failed.
C13_Witness ==
    /\ b_kind = "rating"
    /\ Returned
    /\ Len(b_ids) = 2
    /\ \A i \in Positions : Failed(i)
    /\ b_result = <<>>
    /\ files[BatchFile].state = "complete"

\* An empty batch ended in ValueError without a fetch and without a file.
C13_EmptyBatchRaised ==
    /\ b_kind # "none"
    /\ b_ids = <<>>
    /\ Raised
    /\ b_err = "ValueError"
    /\ files[BatchFile].state = "absent"

====
